---- MODULE Spec2Model ----
(***************************************************************************)
(* A model of the ohairs data types (src/src/dtypes.rs) and of the request *)
(* body built by Client::create_chat_completion (src/src/lib.rs).          *)
(*                                                                         *)
(* Text is a sequence of characters, each character a one-character        *)
(* string.  A character outside the alphabet written out below is named    *)
(* "U+XXXX" by its code point.  A JSON document is parsed from text to a   *)
(* tree and decoded from the tree by the rules serde derives for each      *)
(* type; encoding goes the other way.                                      *)
(***************************************************************************)
EXTENDS Integers, Sequences, FiniteSets, TLC

VARIABLES op, pc, frame, outcome, parsed, value, wire, back, given

vars == <<op, pc, frame, outcome, parsed, value, wire, back, given>>

(***************************************************************************)
(* Result and Option                                                       *)
(***************************************************************************)
Ok(x) == [ok |-> TRUE, v |-> x]

Err(e) == [ok |-> FALSE, e |-> e]

None == [some |-> FALSE]

Some(x) == [some |-> TRUE, v |-> x]

\* the ? operator on r, and Some(_) of the value: Ok(Some(r?))
map_some(r) == IF r.ok THEN Ok(Some(r.v)) ELSE r

\* Result::map_err with an error that is the text e
map_err(r, e) == IF r.ok THEN r ELSE Err(e)

(***************************************************************************)
(* Characters                                                              *)
(***************************************************************************)
\* char::is_whitespace, as str::trim uses it, over the modelled alphabet
White_Space == {" ", "\n", "\t", "\r", "\f", "U+000B", "U+0085", "U+00A0"}

\* the whitespace serde_json skips between tokens
JsonWhitespace == {" ", "\n", "\t", "\r"}

Digits == <<"0", "1", "2", "3", "4", "5", "6", "7", "8", "9">>

HexDigits == <<"0", "1", "2", "3", "4", "5", "6", "7", "8", "9",
               "A", "B", "C", "D", "E", "F">>

LowerHex == <<"0", "1", "2", "3", "4", "5", "6", "7", "8", "9",
              "a", "b", "c", "d", "e", "f">>

\* the printable ASCII characters, U+0020 .. U+007E, in code point order
Ascii == <<" ", "!", "\"", "#", "$", "%", "&", "'", "(", ")", "*", "+", ",",
           "-", ".", "/", "0", "1", "2", "3", "4", "5", "6", "7", "8", "9",
           ":", ";", "<", "=", ">", "?", "@", "A", "B", "C", "D", "E", "F",
           "G", "H", "I", "J", "K", "L", "M", "N", "O", "P", "Q", "R", "S",
           "T", "U", "V", "W", "X", "Y", "Z", "[", "\\", "]", "^", "_", "U+0060",
           "a", "b", "c", "d", "e", "f", "g", "h", "i", "j", "k", "l", "m",
           "n", "o", "p", "q", "r", "s", "t", "u", "v", "w", "x", "y", "z",
           "{", "|", "}", "~">>

IndexOf(seq, c) == CHOOSE k \in 1..Len(seq) : seq[k] = c

IsIn(seq, c) == \E k \in 1..Len(seq) : seq[k] = c

IsDigit(c) == IsIn(Digits, c)

IsHex(c) == IsIn(HexDigits, c) \/ IsIn(LowerHex, c)

HexVal(c) == IF IsIn(HexDigits, c) THEN IndexOf(HexDigits, c) - 1
             ELSE IndexOf(LowerHex, c) - 1

Hex4(n) == <<HexDigits[((n \div 4096) % 16) + 1], HexDigits[((n \div 256) % 16) + 1],
             HexDigits[((n \div 16) % 16) + 1], HexDigits[(n % 16) + 1]>>

\* the character with code point n < 65536
CharOf(n) ==
    IF n >= 32 /\ n <= 126 THEN Ascii[n - 31]
    ELSE IF n = 9 THEN "\t"
    ELSE IF n = 10 THEN "\n"
    ELSE IF n = 12 THEN "\f"
    ELSE IF n = 13 THEN "\r"
    ELSE LET h == Hex4(n) IN "U+" \o h[1] \o h[2] \o h[3] \o h[4]

\* the characters below U+0020
ControlChars == {CharOf(n) : n \in 0..31}

ControlCode(c) == CHOOSE n \in 0..31 : c = CharOf(n)

(***************************************************************************)
(* str::trim, str::starts_with, str::strip_prefix                          *)
(***************************************************************************)
RECURSIVE trim_start(_)
trim_start(s) ==
    IF s # <<>> /\ Head(s) \in White_Space THEN trim_start(Tail(s)) ELSE s

RECURSIVE trim_end(_)
trim_end(s) ==
    IF s # <<>> /\ s[Len(s)] \in White_Space
    THEN trim_end(SubSeq(s, 1, Len(s) - 1))
    ELSE s

\* trim that forgets the trailing whitespace
trim_leading_only(s) == trim_start(s)

trim(s) == trim_end(trim_start(s))

\* starts_with that compares one character too few
starts_with_short(s, p) ==
    Len(s) >= Len(p) - 1 /\ SubSeq(s, 1, Len(p) - 1) = SubSeq(p, 1, Len(p) - 1)

starts_with(s, p) == Len(s) >= Len(p) /\ SubSeq(s, 1, Len(p)) = p

strip_prefix(s, p) ==
    IF starts_with(s, p) THEN Some(SubSeq(s, Len(p) + 1, Len(s))) ELSE None

(***************************************************************************)
(* serde_json: text to JSON tree.  A tree is one of                        *)
(*   [t |-> "null"], [t |-> "bool", b], [t |-> "num", lit], [t |-> "str",  *)
(*   s], [t |-> "arr", a], [t |-> "obj", o] where o is the sequence of     *)
(*   the members [k, v] in the order of the text, duplicates kept.         *)
(* A parse step answers [ok, v, i]: the tree and the next position.        *)
(***************************************************************************)
JNull == [t |-> "null"]

JBool(b) == [t |-> "bool", b |-> b]

JNum(lit) == [t |-> "num", lit |-> lit]

JStr(s) == [t |-> "str", s |-> s]

JArr(a) == [t |-> "arr", a |-> a]

JObj(o) == [t |-> "obj", o |-> o]

Member(k, v) == [k |-> k, v |-> v]

Fail(i) == [ok |-> FALSE, v |-> JNull, i |-> i]

Step(v, i) == [ok |-> TRUE, v |-> v, i |-> i]

At(s, i) == IF i <= Len(s) THEN s[i] ELSE "EOF"

\* the first position from i, up to the end of s, whose character is not to
\* be skipped; a character is skipped when its being in cs is as member
\* says: the loops that pass over a run of characters
Scan(s, i, cs, member) ==
    IF i > Len(s) THEN i
    ELSE CHOOSE j \in i..(Len(s) + 1) :
            /\ j = Len(s) + 1 \/ (s[j] \in cs) # member
            /\ \A k \in i..(j - 1) : (s[k] \in cs) = member

parse_whitespace(s, i) == Scan(s, i, JsonWhitespace, TRUE)

\* the literal lit stands at position i
parse_ident(s, i, lit) ==
    i + Len(lit) - 1 <= Len(s) /\ SubSeq(s, i, i + Len(lit) - 1) = lit

scan_digits(s, i) == Scan(s, i, {Digits[k] : k \in 1..Len(Digits)}, TRUE)

\* a number: -? (0 | [1-9][0-9]*) (. [0-9]+)? ([eE] [+-]? [0-9]+)?
\* the exponent, if any, from position j of the number that began at i
number_exponent(s, i, j) ==
    LET k == IF At(s, j + 1) \in {"+", "-"} THEN j + 2 ELSE j + 1
        m == scan_digits(s, k)
    IN  IF At(s, j) \notin {"e", "E"} THEN Step(JNum(SubSeq(s, i, j - 1)), j)
        ELSE IF m = k THEN Fail(m)                                    \* no digit
        ELSE Step(JNum(SubSeq(s, i, m - 1)), m)

parse_number(s, i) ==
    LET i1 == IF At(s, i) = "-" THEN i + 1 ELSE i
        i2 == IF At(s, i1) = "0" THEN i1 + 1 ELSE scan_digits(s, i1)
        i3 == IF At(s, i2) = "." THEN scan_digits(s, i2 + 1) ELSE i2
    IN  IF i2 = i1 THEN Fail(i1)                                      \* no digit
        ELSE IF At(s, i1) = "0" /\ IsDigit(At(s, i2)) THEN Fail(i2)   \* a leading zero
        ELSE IF At(s, i2) = "." /\ i3 = i2 + 1 THEN Fail(i3)          \* no digit
        ELSE number_exponent(s, i, i3)

\* EscapeChar that keeps the letter of the escape
EscapeChar_letter(c) == c

\* the character of a one-character escape
EscapeChar(c) ==
    CASE c = "\"" -> "\""
      [] c = "\\" -> "\\"
      [] c = "/" -> "/"
      [] c = "b" -> "U+0008"
      [] c = "f" -> "\f"
      [] c = "n" -> "\n"
      [] c = "r" -> "\r"
      [] c = "t" -> "\t"

Hex4Val(s, i) ==
    4096 * HexVal(s[i]) + 256 * HexVal(s[i + 1]) + 16 * HexVal(s[i + 2]) + HexVal(s[i + 3])

IsHex4(s, i) == i + 3 <= Len(s) /\ \A k \in i..(i + 3) : IsHex(s[k])

\* a \uXXXX escape at position i, the code n of its four digits read
parse_unicode_escape(s, i, n) ==
    IF n >= 56320 /\ n <= 57343 THEN [ok |-> FALSE, i |-> i]         \* a lone trailing surrogate
    ELSE IF n >= 55296 /\ n <= 56319 THEN
        IF At(s, i + 6) = "\\" /\ At(s, i + 7) = "u" /\ IsHex4(s, i + 8)
           /\ Hex4Val(s, i + 8) >= 56320 /\ Hex4Val(s, i + 8) <= 57343
        THEN [ok |-> TRUE, c |-> CharOf(n) \o CharOf(Hex4Val(s, i + 8)), i |-> i + 12]
        ELSE [ok |-> FALSE, i |-> i + 6]                             \* a lone leading surrogate
    ELSE [ok |-> TRUE, c |-> CharOf(n), i |-> i + 6]

RECURSIVE parse_str(_, _, _)
\* the text of a string from position i0, after the opening quote
parse_str(s, i0, acc0) ==
    LET i == Scan(s, i0, {"\"", "\\"} \cup ControlChars, FALSE)
        acc == acc0 \o SubSeq(s, i0, i - 1)
        e == At(s, i + 1)
        u == parse_unicode_escape(s, i, Hex4Val(s, i + 2))
    IN  CASE i > Len(s) -> Fail(i)
          [] i <= Len(s) /\ s[i] = "\"" -> Step(JStr(acc), i + 1)
          [] i <= Len(s) /\ s[i] \in ControlChars -> Fail(i)     \* a raw control character
          [] i <= Len(s) /\ s[i] = "\\" /\ e \in {"\"", "\\", "/", "b", "f", "n", "r", "t"} ->
                parse_str(s, i + 2, Append(acc, EscapeChar(e)))
          [] i <= Len(s) /\ s[i] = "\\" /\ e = "u" /\ IsHex4(s, i + 2) ->
                IF u.ok THEN parse_str(s, u.i, Append(acc, u.c)) ELSE Fail(u.i)
          [] OTHER -> Fail(i + 1)

RECURSIVE parse_value(_, _), parse_seq(_, _, _), parse_map(_, _, _)

\* the elements of an array from position i, after "[" or ","
parse_seq(s, i, acc) ==
    LET r == parse_value(s, i)
        j == parse_whitespace(s, r.i)
    IN  CASE ~r.ok -> r
          [] r.ok /\ At(s, j) = "," -> parse_seq(s, j + 1, Append(acc, r.v))
          [] r.ok /\ At(s, j) = "]" -> Step(JArr(Append(acc, r.v)), j + 1)
          [] OTHER -> Fail(j)

\* the members of an object from position i1, where the key begins
parse_map(s, i1, acc) ==
    LET k == parse_str(s, i1 + 1, <<>>)
        i2 == parse_whitespace(s, k.i)
        r == parse_value(s, i2 + 1)
        j == parse_whitespace(s, r.i)
    IN  CASE At(s, i1) # "\"" -> Fail(i1)
          [] At(s, i1) = "\"" /\ ~k.ok -> k
          [] At(s, i1) = "\"" /\ k.ok /\ At(s, i2) # ":" -> Fail(i2)
          [] At(s, i1) = "\"" /\ k.ok /\ At(s, i2) = ":" /\ ~r.ok -> r
          [] At(s, i1) = "\"" /\ k.ok /\ At(s, i2) = ":" /\ r.ok /\ At(s, j) = "," ->
                parse_map(s, parse_whitespace(s, j + 1), Append(acc, Member(k.v.s, r.v)))
          [] At(s, i1) = "\"" /\ k.ok /\ At(s, i2) = ":" /\ r.ok /\ At(s, j) = "}" ->
                Step(JObj(Append(acc, Member(k.v.s, r.v))), j + 1)
          [] OTHER -> Fail(j)

parse_value(s, i0) ==
    LET i == parse_whitespace(s, i0)
        c == At(s, i)
        j == parse_whitespace(s, i + 1)
    IN  CASE c = "n" ->
                IF parse_ident(s, i, <<"n", "u", "l", "l">>) THEN Step(JNull, i + 4) ELSE Fail(i)
          [] c = "t" ->
                IF parse_ident(s, i, <<"t", "r", "u", "e">>)
                THEN Step(JBool(TRUE), i + 4) ELSE Fail(i)
          [] c = "f" ->
                IF parse_ident(s, i, <<"f", "a", "l", "s", "e">>)
                THEN Step(JBool(FALSE), i + 5) ELSE Fail(i)
          [] c = "\"" -> parse_str(s, i + 1, <<>>)
          [] c = "-" \/ IsDigit(c) -> parse_number(s, i)
          [] c = "[" /\ At(s, j) = "]" -> Step(JArr(<<>>), j + 1)
          [] c = "[" /\ At(s, j) # "]" -> parse_seq(s, j, <<>>)
          [] c = "{" /\ At(s, j) = "}" -> Step(JObj(<<>>), j + 1)
          [] c = "{" /\ At(s, j) # "}" -> parse_map(s, j, <<>>)
          [] OTHER -> Fail(i)

\* the text of each field and variant name
Chars == [
    model |-> <<"m", "o", "d", "e", "l">>,
    messages |-> <<"m", "e", "s", "s", "a", "g", "e", "s">>,
    functions |-> <<"f", "u", "n", "c", "t", "i", "o", "n", "s">>,
    function_call |-> <<"f", "u", "n", "c", "t", "i", "o", "n", "_", "c", "a", "l", "l">>,
    temperature |-> <<"t", "e", "m", "p", "e", "r", "a", "t", "u", "r", "e">>,
    top_p |-> <<"t", "o", "p", "_", "p">>,
    n |-> <<"n">>,
    stream |-> <<"s", "t", "r", "e", "a", "m">>,
    stop |-> <<"s", "t", "o", "p">>,
    max_tokens |-> <<"m", "a", "x", "_", "t", "o", "k", "e", "n", "s">>,
    presence_penalty |-> <<"p", "r", "e", "s", "e", "n", "c", "e", "_", "p", "e", "n", "a", "l", "t", "y">>,
    frequency_penalty |-> <<"f", "r", "e", "q", "u", "e", "n", "c", "y", "_", "p", "e", "n", "a", "l", "t", "y">>,
    logit_bias |-> <<"l", "o", "g", "i", "t", "_", "b", "i", "a", "s">>,
    user |-> <<"u", "s", "e", "r">>,
    id |-> <<"i", "d">>,
    object |-> <<"o", "b", "j", "e", "c", "t">>,
    created |-> <<"c", "r", "e", "a", "t", "e", "d">>,
    owned_by |-> <<"o", "w", "n", "e", "d", "_", "b", "y">>,
    choices |-> <<"c", "h", "o", "i", "c", "e", "s">>,
    usage |-> <<"u", "s", "a", "g", "e">>,
    index |-> <<"i", "n", "d", "e", "x">>,
    message |-> <<"m", "e", "s", "s", "a", "g", "e">>,
    finish_reason |-> <<"f", "i", "n", "i", "s", "h", "_", "r", "e", "a", "s", "o", "n">>,
    role |-> <<"r", "o", "l", "e">>,
    content |-> <<"c", "o", "n", "t", "e", "n", "t">>,
    name |-> <<"n", "a", "m", "e">>,
    arguments |-> <<"a", "r", "g", "u", "m", "e", "n", "t", "s">>,
    prompt_tokens |-> <<"p", "r", "o", "m", "p", "t", "_", "t", "o", "k", "e", "n", "s">>,
    completion_tokens |-> <<"c", "o", "m", "p", "l", "e", "t", "i", "o", "n", "_", "t", "o", "k", "e", "n", "s">>,
    total_tokens |-> <<"t", "o", "t", "a", "l", "_", "t", "o", "k", "e", "n", "s">>,
    delta |-> <<"d", "e", "l", "t", "a">>,
    description |-> <<"d", "e", "s", "c", "r", "i", "p", "t", "i", "o", "n">>,
    parameters |-> <<"p", "a", "r", "a", "m", "e", "t", "e", "r", "s">>,
    data |-> <<"d", "a", "t", "a">>,
    none |-> <<"n", "o", "n", "e">>,
    auto |-> <<"a", "u", "t", "o">>]

(***************************************************************************)
(* serde_json: JSON tree to text, in the compact form of to_string/to_vec  *)
(***************************************************************************)
format_escaped_char(c) ==
    IF c = "\"" THEN <<"\\", "\"">>
    ELSE IF c = "\\" THEN <<"\\", "\\">>
    ELSE IF c = "U+0008" THEN <<"\\", "b">>
    ELSE IF c = "\f" THEN <<"\\", "f">>
    ELSE IF c = "\n" THEN <<"\\", "n">>
    ELSE IF c = "\r" THEN <<"\\", "r">>
    ELSE IF c = "\t" THEN <<"\\", "t">>
    ELSE IF c \in ControlChars
        THEN <<"\\", "u", "0", "0", LowerHex[(ControlCode(c) \div 16) + 1],
               LowerHex[(ControlCode(c) % 16) + 1]>>
    ELSE <<c>>

RECURSIVE format_escaped_str_contents(_)
format_escaped_str_contents(s) ==
    IF s = <<>> THEN <<>>
    ELSE format_escaped_char(Head(s)) \o format_escaped_str_contents(Tail(s))

format_escaped_str(s) == <<"\"">> \o format_escaped_str_contents(s) \o <<"\"">>

RECURSIVE write_value(_), write_seq(_), write_map(_)

write_seq(a) ==
    IF a = <<>> THEN <<>>
    ELSE write_value(Head(a))
         \o (IF Len(a) > 1 THEN <<",">> ELSE <<>>) \o write_seq(Tail(a))

write_map(o) ==
    IF o = <<>> THEN <<>>
    ELSE format_escaped_str(Head(o).k) \o <<":">> \o write_value(Head(o).v)
         \o (IF Len(o) > 1 THEN <<",">> ELSE <<>>) \o write_map(Tail(o))

write_value(v) ==
    CASE v.t = "null" -> <<"n", "u", "l", "l">>
      [] v.t = "bool" -> IF v.b THEN <<"t", "r", "u", "e">> ELSE <<"f", "a", "l", "s", "e">>
      [] v.t = "num" -> v.lit
      [] v.t = "str" -> format_escaped_str(v.s)
      [] v.t = "arr" -> <<"[">> \o write_seq(v.a) \o <<"]">>
      [] v.t = "obj" -> <<"{">> \o write_map(v.o) \o <<"}">>

(***************************************************************************)
(* The data types.  A type is a descriptor; a struct is the sequence of    *)
(* its fields in declaration order.  Values: a String is its text, a u64   *)
(* its decimal digits, an f64 its shortest decimal text (or "NaN"), a Vec  *)
(* a sequence, a HashMap the sequence of its entries in iteration order,   *)
(* a struct a record, an enum a record [variant, x].                       *)
(***************************************************************************)
TString == [ty |-> "String"]

TU64 == [ty |-> "u64"]

TF64 == [ty |-> "f64"]

TBool == [ty |-> "bool"]

TValue == [ty |-> "Value"]

TOption(t) == [ty |-> "Option", of |-> t]

TVec(t) == [ty |-> "Vec", of |-> t]

THashMap(t) == [ty |-> "HashMap", of |-> t]

TStruct(n) == [ty |-> "struct", name |-> n]

TFunctionCallType == [ty |-> "FunctionCallType"]

TStopToken == [ty |-> "StopToken"]

Field(n, t) == [name |-> n, ty |-> t]

ChatCompletionRequest ==
    << Field("model", TString),
       Field("messages", TVec(TStruct("ChatCompletionMessage"))),
       Field("functions", TVec(TStruct("Function"))),
       Field("function_call", TOption(TFunctionCallType)),
       Field("temperature", TOption(TF64)),
       Field("top_p", TOption(TF64)),
       Field("n", TOption(TU64)),
       Field("stream", TOption(TBool)),
       Field("stop", TOption(TStopToken)),
       Field("max_tokens", TOption(TU64)),
       Field("presence_penalty", TOption(TF64)),
       Field("frequency_penalty", TOption(TF64)),
       Field("logit_bias", TOption(THashMap(TF64))),
       Field("user", TOption(TString)) >>

ModelObject ==
    << Field("id", TString), Field("object", TString), Field("created", TU64),
       Field("owned_by", TString) >>

ChatCompletionObject ==
    << Field("id", TString), Field("object", TString), Field("created", TU64),
       Field("model", TString),
       Field("choices", TVec(TStruct("ChatCompletionChoice"))),
       Field("usage", TStruct("ChatCompletionUsage")) >>

ChatCompletionChoice ==
    << Field("index", TU64), Field("message", TStruct("ChatCompletionMessage")),
       Field("finish_reason", TString) >>

ChatCompletionMessage ==
    << Field("role", TString), Field("content", TOption(TString)),
       Field("function_call", TOption(TStruct("FunctionCall"))) >>

FunctionCall == << Field("name", TString), Field("arguments", TString) >>

ChatCompletionUsage ==
    << Field("prompt_tokens", TU64), Field("completion_tokens", TU64),
       Field("total_tokens", TU64) >>

ChatCompletionChunk ==
    << Field("id", TString), Field("object", TString), Field("created", TU64),
       Field("model", TString),
       Field("choices", TVec(TStruct("ChatCompletionChunkChoice"))) >>

ChatCompletionChunkChoice ==
    << Field("index", TU64), Field("delta", TStruct("ChatCompletionMessage")),
       Field("finish_reason", TOption(TString)) >>

Function ==
    << Field("name", TString), Field("description", TOption(TString)),
       Field("parameters", TValue) >>

ListModelsResponse ==
    << Field("object", TString), Field("data", TVec(TStruct("ModelObject"))) >>

StructFields(n) ==
    CASE n = "ChatCompletionRequest" -> ChatCompletionRequest
      [] n = "ModelObject" -> ModelObject
      [] n = "ChatCompletionObject" -> ChatCompletionObject
      [] n = "ChatCompletionChoice" -> ChatCompletionChoice
      [] n = "ChatCompletionMessage" -> ChatCompletionMessage
      [] n = "FunctionCall" -> FunctionCall
      [] n = "ChatCompletionUsage" -> ChatCompletionUsage
      [] n = "ChatCompletionChunk" -> ChatCompletionChunk
      [] n = "ChatCompletionChunkChoice" -> ChatCompletionChunkChoice
      [] n = "Function" -> Function
      [] n = "ListModelsResponse" -> ListModelsResponse

FieldNames(fs) == {fs[j].name : j \in 1..Len(fs)}

FieldIndex(fs, n) == CHOOSE j \in 1..Len(fs) : fs[j].name = n

\* enum FunctionCallType and enum StopToken
FunctionCallType_None == [variant |-> "None"]

FunctionCallType_Auto == [variant |-> "Auto"]

FunctionCallType_Name(x) == [variant |-> "Name", x |-> x]

SingleToken(s) == [variant |-> "SingleToken", s |-> s]

MultipleTokens(v) == [variant |-> "MultipleTokens", v |-> v]

\* u64::MAX, 18446744073709551615
U64Max == <<"1", "8", "4", "4", "6", "7", "4", "4", "0", "7", "3", "7", "0", "9",
            "5", "5", "1", "6", "1", "5">>

RECURSIVE DigitsLeq(_, _)
DigitsLeq(a, b) ==
    IF a = <<>> THEN TRUE
    ELSE IF Head(a) # Head(b) THEN IndexOf(Digits, Head(a)) < IndexOf(Digits, Head(b))
    ELSE DigitsLeq(Tail(a), Tail(b))

\* the literal is an integer of 0 .. u64::MAX: no sign, fraction or exponent
IsU64(lit) ==
    /\ \A k \in 1..Len(lit) : IsDigit(lit[k])
    /\ \/ Len(lit) < Len(U64Max)
       \/ Len(lit) = Len(U64Max) /\ DigitsLeq(lit, U64Max)

(***************************************************************************)
(* #[derive(Deserialize)]: JSON tree to value                              *)
(***************************************************************************)
SerdeError == "serde_json::Error"

\* missing_field that fails for every type: a field not held is an error
missing_field_required(ty) == Err(SerdeError)

\* a field the object does not hold: an Option is None, anything else fails
missing_field(ty) == IF ty.ty = "Option" THEN Ok(None) ELSE Err(SerdeError)

RECURSIVE De(_, _)

\* every element decoded, or the first failure
De_Vec(ty, a) ==
    LET rs == [j \in 1..Len(a) |-> De(ty, a[j])] IN
    IF \E j \in 1..Len(a) : ~rs[j].ok THEN Err(SerdeError)
    ELSE Ok([j \in 1..Len(a) |-> rs[j].v])

\* a struct from an object: unknown members are skipped, a member given
\* twice fails, a member not given is missing_field
visit_map(fs, o) ==
    LET at(j) == {k \in 1..Len(o) : o[k].k = Chars[fs[j].name]}
        rs == [j \in 1..Len(fs) |->
                 IF at(j) = {} THEN missing_field(fs[j].ty)
                 ELSE De(fs[j].ty, o[CHOOSE k \in at(j) : TRUE].v)]
    IN  IF \E j \in 1..Len(fs) : Cardinality(at(j)) > 1 THEN Err(SerdeError)
        ELSE IF \E j \in 1..Len(fs) : ~rs[j].ok THEN Err(SerdeError)
        ELSE Ok([n \in FieldNames(fs) |-> rs[FieldIndex(fs, n)].v])

\* a struct from an array: the fields by position, no more and no fewer
visit_seq(fs, a) ==
    LET rs == [j \in 1..Len(fs) |-> De(fs[j].ty, a[j])] IN
    IF Len(a) # Len(fs) THEN Err(SerdeError)
    ELSE IF \E j \in 1..Len(fs) : ~rs[j].ok THEN Err(SerdeError)
    ELSE Ok([n \in FieldNames(fs) |-> rs[FieldIndex(fs, n)].v])

\* De_FunctionCallType that looks at the first member of an object only
De_FunctionCallType_first_member(v) ==
    IF v.t = "str" THEN
        IF v.s = Chars.none THEN Ok(FunctionCallType_None)
        ELSE IF v.s = Chars.auto THEN Ok(FunctionCallType_Auto)
        ELSE Err(SerdeError)
    ELSE IF v.t = "obj" /\ Len(v.o) >= 1 THEN
        LET m == v.o[1] IN
        IF m.k = Chars.none /\ m.v.t = "null" THEN Ok(FunctionCallType_None)
        ELSE IF m.k = Chars.auto /\ m.v.t = "null" THEN Ok(FunctionCallType_Auto)
        ELSE IF m.k = Chars.name /\ m.v.t = "str" THEN Ok(FunctionCallType_Name(m.v.s))
        ELSE Err(SerdeError)
    ELSE Err(SerdeError)

\* enum FunctionCallType, externally tagged: a string names a unit variant,
\* an object of one member names the variant and holds its content
De_FunctionCallType(v) ==
    IF v.t = "str" THEN
        IF v.s = Chars.none THEN Ok(FunctionCallType_None)
        ELSE IF v.s = Chars.auto THEN Ok(FunctionCallType_Auto)
        ELSE Err(SerdeError)
    ELSE IF v.t = "obj" /\ Len(v.o) = 1 THEN
        LET m == v.o[1] IN
        IF m.k = Chars.none /\ m.v.t = "null" THEN Ok(FunctionCallType_None)
        ELSE IF m.k = Chars.auto /\ m.v.t = "null" THEN Ok(FunctionCallType_Auto)
        ELSE IF m.k = Chars.name /\ m.v.t = "str" THEN Ok(FunctionCallType_Name(m.v.s))
        ELSE Err(SerdeError)
    ELSE Err(SerdeError)

\* enum StopToken, untagged: the variants are tried in declaration order
De_StopToken(v) ==
    IF v.t = "str" THEN Ok(SingleToken(v.s))
    ELSE IF v.t = "arr" /\ \A j \in 1..Len(v.a) : v.a[j].t = "str"
        THEN Ok(MultipleTokens([j \in 1..Len(v.a) |-> v.a[j].s]))
    ELSE Err(SerdeError)

De(ty, v) ==
    CASE ty.ty = "String" -> IF v.t = "str" THEN Ok(v.s) ELSE Err(SerdeError)
      [] ty.ty = "u64" -> IF v.t = "num" /\ IsU64(v.lit) THEN Ok(v.lit) ELSE Err(SerdeError)
      [] ty.ty = "bool" -> IF v.t = "bool" THEN Ok(v.b) ELSE Err(SerdeError)
      [] ty.ty = "Value" -> Ok(v)
      [] ty.ty = "Option" ->
            IF v.t = "null" THEN Ok(None)
            ELSE map_some(De(ty.of, v))
      [] ty.ty = "Vec" -> IF v.t = "arr" THEN De_Vec(ty.of, v.a) ELSE Err(SerdeError)
      [] ty.ty = "struct" ->
            IF v.t = "obj" THEN visit_map(StructFields(ty.name), v.o)
            ELSE IF v.t = "arr" THEN visit_seq(StructFields(ty.name), v.a)
            ELSE Err(SerdeError)
      [] ty.ty = "FunctionCallType" -> De_FunctionCallType(v)
      [] ty.ty = "StopToken" -> De_StopToken(v)

\* serde_json::de::from_trait: the value is deserialized from the document r
\* read from s, and only whitespace may follow it (Deserializer::end)
from_trait(ty, s, r) ==
    IF r.ok /\ parse_whitespace(s, r.i) = Len(s) + 1 THEN De(ty, r.v) ELSE Err(SerdeError)

\* serde_json::from_str::<T>
from_str(ty, s) == from_trait(ty, s, parse_value(s, 1))

\* serde_json::from_str::<serde_json::Value>
parse_document(s) == from_str(TValue, s)

(***************************************************************************)
(* #[derive(Serialize)]: value to JSON tree                                *)
(***************************************************************************)
RECURSIVE Ser(_, _)

Ser_struct(fs, x) ==
    JObj([j \in 1..Len(fs) |-> Member(Chars[fs[j].name], Ser(fs[j].ty, x[fs[j].name]))])

\* Ser_FunctionCallType that writes every variant as a string
Ser_FunctionCallType_string(x) ==
    CASE x.variant = "None" -> JStr(Chars.none)
      [] x.variant = "Auto" -> JStr(Chars.auto)
      [] x.variant = "Name" -> JStr(x.x)

Ser_FunctionCallType(x) ==
    CASE x.variant = "None" -> JStr(Chars.none)
      [] x.variant = "Auto" -> JStr(Chars.auto)
      [] x.variant = "Name" -> JObj(<<Member(Chars.name, JStr(x.x))>>)

\* Ser_StopToken that writes every variant as an array
Ser_StopToken_array(x) ==
    CASE x.variant = "SingleToken" -> JArr(<<JStr(x.s)>>)
      [] x.variant = "MultipleTokens" -> JArr([j \in 1..Len(x.v) |-> JStr(x.v[j])])

Ser_StopToken(x) ==
    CASE x.variant = "SingleToken" -> JStr(x.s)
      [] x.variant = "MultipleTokens" -> JArr([j \in 1..Len(x.v) |-> JStr(x.v[j])])

Ser(ty, x) ==
    CASE ty.ty = "String" -> JStr(x)
      [] ty.ty = "u64" -> JNum(x)
      [] ty.ty = "f64" -> IF x = <<"N", "a", "N">> THEN JNull ELSE JNum(x)
      [] ty.ty = "bool" -> JBool(x)
      [] ty.ty = "Value" -> x
      [] ty.ty = "Option" -> IF x.some THEN Ser(ty.of, x.v) ELSE JNull
      [] ty.ty = "Vec" -> JArr([j \in 1..Len(x) |-> Ser(ty.of, x[j])])
      [] ty.ty = "HashMap" -> JObj([j \in 1..Len(x) |-> Member(x[j].k, Ser(ty.of, x[j].v))])
      [] ty.ty = "struct" -> Ser_struct(StructFields(ty.name), x)
      [] ty.ty = "FunctionCallType" -> Ser_FunctionCallType(x)
      [] ty.ty = "StopToken" -> Ser_StopToken(x)

\* serde_json::to_string::<T>
to_string(ty, x) == write_value(Ser(ty, x))

(***************************************************************************)
(* ChatCompletionChunk::from_chunk                                         *)
(***************************************************************************)
DATA == <<"d", "a", "t", "a", ":">>

DONE == <<"[", "D", "O", "N", "E", "]">>

ErrStart == "Expected chunk to start with 'data:'"

ErrPrefix == "Expected chunk to have 'data:' prefix"

\* from_chunk that takes any content beginning with "[DONE]" for the sentinel
from_chunk_lenient(chunk) ==
    LET c1 == trim(chunk)
        st == strip_prefix(c1, DATA)
        c2 == trim(st.v)
    IN  IF ~starts_with(c1, DATA) THEN [res |-> Err(ErrStart), parsed |-> FALSE]
        ELSE IF ~st.some THEN [res |-> Err(ErrPrefix), parsed |-> FALSE]
        ELSE IF starts_with(c2, DONE) THEN [res |-> Ok(None), parsed |-> FALSE]
        ELSE [res |-> map_some(from_str(TStruct("ChatCompletionChunk"), c2)), parsed |-> TRUE]

\* the answer [res, parsed]: the Result<Option<Self>>, and whether
\* serde_json::from_str was called
from_chunk(chunk) ==
    LET c1 == trim(chunk)
        st == strip_prefix(c1, DATA)
        c2 == trim(st.v)
    IN  IF ~starts_with(c1, DATA) THEN [res |-> Err(ErrStart), parsed |-> FALSE]
        ELSE IF ~st.some THEN [res |-> Err(ErrPrefix), parsed |-> FALSE]
        ELSE IF c2 = DONE THEN [res |-> Ok(None), parsed |-> FALSE]
        ELSE [res |-> map_some(from_str(TStruct("ChatCompletionChunk"), c2)), parsed |-> TRUE]

(***************************************************************************)
(* The frames and chunks of the test chat_completion_chunk_from_chunk      *)
(***************************************************************************)
\* dtypes.rs lines 377-383
TestFrame5 ==
    <<"d", "a", "t", "a", ":", " ", "{", "\n", " ", " ", " ", " ", " ", " ", " ", " ", " ",
      " ", " ", " ", " ", " ", " ", " ", " ", " ", " ", " ", "\"", "i", "d", "\"", ":",
      " ", "\"", "\"", ",", "\n", " ", " ", " ", " ", " ", " ", " ", " ", " ", " ", " ",
      " ", " ", " ", " ", " ", " ", " ", " ", " ", "\"", "o", "b", "j", "e", "c", "t",
      "\"", ":", " ", "\"", "\"", ",", "\n", " ", " ", " ", " ", " ", " ", " ", " ", " ",
      " ", " ", " ", " ", " ", " ", " ", " ", " ", " ", " ", "\"", "c", "r", "e", "a", "t",
      "e", "d", "\"", ":", " ", "0", ",", "\n", " ", " ", " ", " ", " ", " ", " ", " ",
      " ", " ", " ", " ", " ", " ", " ", " ", " ", " ", " ", " ", "\"", "m", "o", "d", "e",
      "l", "\"", ":", " ", "\"", "\"", ",", "\n", " ", " ", " ", " ", " ", " ", " ", " ",
      " ", " ", " ", " ", " ", " ", " ", " ", " ", " ", " ", " ", "\"", "c", "h", "o", "i",
      "c", "e", "s", "\"", ":", " ", "[", "]", "\n", " ", " ", " ", " ", " ", " ", " ",
      " ", " ", " ", " ", " ", " ", " ", " ", " ", "}">>

\* dtypes.rs lines 389-395
TestFrame6 ==
    <<"d", "a", "t", "a", ":", " ", "{", "\n", " ", " ", " ", " ", " ", " ", " ", " ", " ",
      " ", " ", " ", " ", " ", " ", " ", " ", " ", " ", " ", "\"", "i", "d", "\"", ":",
      " ", "\"", "c", "h", "a", "t", "c", "m", "p", "l", "-", "1", "2", "3", "\"", ",",
      "\n", " ", " ", " ", " ", " ", " ", " ", " ", " ", " ", " ", " ", " ", " ", " ", " ",
      " ", " ", " ", " ", "\"", "o", "b", "j", "e", "c", "t", "\"", ":", " ", "\"", "c",
      "h", "a", "t", ".", "c", "o", "m", "p", "l", "e", "t", "i", "o", "n", ".", "c", "h",
      "u", "n", "k", "\"", ",", "\n", " ", " ", " ", " ", " ", " ", " ", " ", " ", " ",
      " ", " ", " ", " ", " ", " ", " ", " ", " ", " ", "\"", "c", "r", "e", "a", "t", "e",
      "d", "\"", ":", " ", "1", "6", "7", "7", "6", "5", "2", "2", "8", "8", ",", "\n",
      " ", " ", " ", " ", " ", " ", " ", " ", " ", " ", " ", " ", " ", " ", " ", " ", " ",
      " ", " ", " ", "\"", "m", "o", "d", "e", "l", "\"", ":", " ", "\"", "g", "p", "t",
      "-", "3", ".", "5", "-", "t", "u", "r", "b", "o", "\"", ",", "\n", " ", " ", " ",
      " ", " ", " ", " ", " ", " ", " ", " ", " ", " ", " ", " ", " ", " ", " ", " ", " ",
      "\"", "c", "h", "o", "i", "c", "e", "s", "\"", ":", " ", "[", "]", "\n", " ", " ",
      " ", " ", " ", " ", " ", " ", " ", " ", " ", " ", " ", " ", " ", " ", "}">>

\* dtypes.rs lines 405-420
TestFrame7 ==
    <<"d", "a", "t", "a", ":", " ", "{", "\n", " ", " ", " ", " ", " ", " ", " ", " ", " ",
      " ", " ", " ", " ", " ", " ", " ", " ", " ", " ", " ", "\"", "i", "d", "\"", ":",
      " ", "\"", "c", "h", "a", "t", "c", "m", "p", "l", "-", "1", "2", "3", "\"", ",",
      "\n", " ", " ", " ", " ", " ", " ", " ", " ", " ", " ", " ", " ", " ", " ", " ", " ",
      " ", " ", " ", " ", "\"", "o", "b", "j", "e", "c", "t", "\"", ":", " ", "\"", "c",
      "h", "a", "t", ".", "c", "o", "m", "p", "l", "e", "t", "i", "o", "n", ".", "c", "h",
      "u", "n", "k", "\"", ",", "\n", " ", " ", " ", " ", " ", " ", " ", " ", " ", " ",
      " ", " ", " ", " ", " ", " ", " ", " ", " ", " ", "\"", "c", "r", "e", "a", "t", "e",
      "d", "\"", ":", " ", "1", "6", "7", "7", "6", "5", "2", "2", "8", "8", ",", "\n",
      " ", " ", " ", " ", " ", " ", " ", " ", " ", " ", " ", " ", " ", " ", " ", " ", " ",
      " ", " ", " ", "\"", "m", "o", "d", "e", "l", "\"", ":", " ", "\"", "g", "p", "t",
      "-", "3", ".", "5", "-", "t", "u", "r", "b", "o", "\"", ",", "\n", " ", " ", " ",
      " ", " ", " ", " ", " ", " ", " ", " ", " ", " ", " ", " ", " ", " ", " ", " ", " ",
      "\"", "c", "h", "o", "i", "c", "e", "s", "\"", ":", " ", "[", "\n", " ", " ", " ",
      " ", " ", " ", " ", " ", " ", " ", " ", " ", " ", " ", " ", " ", " ", " ", " ", " ",
      " ", " ", " ", " ", "{", "\n", " ", " ", " ", " ", " ", " ", " ", " ", " ", " ", " ",
      " ", " ", " ", " ", " ", " ", " ", " ", " ", " ", " ", " ", " ", " ", " ", " ", " ",
      "\"", "i", "n", "d", "e", "x", "\"", ":", " ", "0", ",", "\n", " ", " ", " ", " ",
      " ", " ", " ", " ", " ", " ", " ", " ", " ", " ", " ", " ", " ", " ", " ", " ", " ",
      " ", " ", " ", " ", " ", " ", " ", "\"", "f", "i", "n", "i", "s", "h", "_", "r", "e",
      "a", "s", "o", "n", "\"", ":", " ", "\"", "s", "t", "o", "p", "\"", ",", "\n", " ",
      " ", " ", " ", " ", " ", " ", " ", " ", " ", " ", " ", " ", " ", " ", " ", " ", " ",
      " ", " ", " ", " ", " ", " ", " ", " ", " ", " ", "\"", "d", "e", "l", "t", "a",
      "\"", ":", " ", "{", "\n", " ", " ", " ", " ", " ", " ", " ", " ", " ", " ", " ",
      " ", " ", " ", " ", " ", " ", " ", " ", " ", " ", " ", " ", " ", " ", " ", " ", " ",
      " ", " ", " ", " ", "\"", "r", "o", "l", "e", "\"", ":", " ", "\"", "s", "y", "s",
      "t", "e", "m", "\"", ",", "\n", " ", " ", " ", " ", " ", " ", " ", " ", " ", " ",
      " ", " ", " ", " ", " ", " ", " ", " ", " ", " ", " ", " ", " ", " ", " ", " ", " ",
      " ", " ", " ", " ", " ", "\"", "c", "o", "n", "t", "e", "n", "t", "\"", ":", " ",
      "\"", "Y", "o", "u", " ", "a", "r", "e", " ", "a", " ", "h", "e", "l", "p", "f", "u",
      "l", " ", "a", "s", "s", "i", "s", "t", "a", "n", "t", ".", "\"", "\n", " ", " ",
      " ", " ", " ", " ", " ", " ", " ", " ", " ", " ", " ", " ", " ", " ", " ", " ", " ",
      " ", " ", " ", " ", " ", " ", " ", " ", " ", "}", "\n", " ", " ", " ", " ", " ", " ",
      " ", " ", " ", " ", " ", " ", " ", " ", " ", " ", " ", " ", " ", " ", " ", " ", " ",
      " ", "}", "\n", " ", " ", " ", " ", " ", " ", " ", " ", " ", " ", " ", " ", " ", " ",
      " ", " ", " ", " ", " ", " ", "]", "\n", " ", " ", " ", " ", " ", " ", " ", " ", " ",
      " ", " ", " ", " ", " ", " ", " ", "}">>

\* dtypes.rs lines 438-472
TestFrame8 ==
    <<"d", "a", "t", "a", ":", " ", "{", "\n", " ", " ", " ", " ", " ", " ", " ", " ", " ",
      " ", " ", " ", " ", " ", " ", " ", " ", " ", " ", " ", "\"", "i", "d", "\"", ":",
      " ", "\"", "c", "h", "a", "t", "c", "m", "p", "l", "-", "1", "2", "3", "\"", ",",
      "\n", " ", " ", " ", " ", " ", " ", " ", " ", " ", " ", " ", " ", " ", " ", " ", " ",
      " ", " ", " ", " ", "\"", "o", "b", "j", "e", "c", "t", "\"", ":", " ", "\"", "c",
      "h", "a", "t", ".", "c", "o", "m", "p", "l", "e", "t", "i", "o", "n", ".", "c", "h",
      "u", "n", "k", "\"", ",", "\n", " ", " ", " ", " ", " ", " ", " ", " ", " ", " ",
      " ", " ", " ", " ", " ", " ", " ", " ", " ", " ", "\"", "c", "r", "e", "a", "t", "e",
      "d", "\"", ":", " ", "1", "6", "7", "7", "6", "5", "2", "2", "8", "8", ",", "\n",
      " ", " ", " ", " ", " ", " ", " ", " ", " ", " ", " ", " ", " ", " ", " ", " ", " ",
      " ", " ", " ", "\"", "m", "o", "d", "e", "l", "\"", ":", " ", "\"", "g", "p", "t",
      "-", "3", ".", "5", "-", "t", "u", "r", "b", "o", "\"", ",", "\n", " ", " ", " ",
      " ", " ", " ", " ", " ", " ", " ", " ", " ", " ", " ", " ", " ", " ", " ", " ", " ",
      "\"", "c", "h", "o", "i", "c", "e", "s", "\"", ":", " ", "[", "\n", " ", " ", " ",
      " ", " ", " ", " ", " ", " ", " ", " ", " ", " ", " ", " ", " ", " ", " ", " ", " ",
      " ", " ", " ", " ", "{", "\n", " ", " ", " ", " ", " ", " ", " ", " ", " ", " ", " ",
      " ", " ", " ", " ", " ", " ", " ", " ", " ", " ", " ", " ", " ", " ", " ", " ", " ",
      "\"", "i", "n", "d", "e", "x", "\"", ":", " ", "0", ",", "\n", " ", " ", " ", " ",
      " ", " ", " ", " ", " ", " ", " ", " ", " ", " ", " ", " ", " ", " ", " ", " ", " ",
      " ", " ", " ", " ", " ", " ", " ", "\"", "f", "i", "n", "i", "s", "h", "_", "r", "e",
      "a", "s", "o", "n", "\"", ":", " ", "\"", "s", "t", "o", "p", "\"", ",", "\n", " ",
      " ", " ", " ", " ", " ", " ", " ", " ", " ", " ", " ", " ", " ", " ", " ", " ", " ",
      " ", " ", " ", " ", " ", " ", " ", " ", " ", " ", "\"", "d", "e", "l", "t", "a",
      "\"", ":", " ", "{", "\n", " ", " ", " ", " ", " ", " ", " ", " ", " ", " ", " ",
      " ", " ", " ", " ", " ", " ", " ", " ", " ", " ", " ", " ", " ", " ", " ", " ", " ",
      " ", " ", " ", " ", "\"", "r", "o", "l", "e", "\"", ":", " ", "\"", "a", "s", "s",
      "i", "s", "t", "a", "n", "t", "\"", ",", "\n", " ", " ", " ", " ", " ", " ", " ",
      " ", " ", " ", " ", " ", " ", " ", " ", " ", " ", " ", " ", " ", " ", " ", " ", " ",
      " ", " ", " ", " ", " ", " ", " ", " ", "\"", "c", "o", "n", "t", "e", "n", "t",
      "\"", ":", " ", "\"", "Y", "o", "u", " ", "a", "r", "e", " ", "a", " ", "h", "e",
      "l", "p", "f", "u", "l", " ", "a", "s", "s", "i", "s", "t", "a", "n", "t", ".", "\"",
      "\n", " ", " ", " ", " ", " ", " ", " ", " ", " ", " ", " ", " ", " ", " ", " ", " ",
      " ", " ", " ", " ", " ", " ", " ", " ", " ", " ", " ", " ", "}", "\n", " ", " ", " ",
      " ", " ", " ", " ", " ", " ", " ", " ", " ", " ", " ", " ", " ", " ", " ", " ", " ",
      " ", " ", " ", " ", "}", ",", "\n", " ", " ", " ", " ", " ", " ", " ", " ", " ", " ",
      " ", " ", " ", " ", " ", " ", " ", " ", " ", " ", " ", " ", " ", " ", "{", "\n", " ",
      " ", " ", " ", " ", " ", " ", " ", " ", " ", " ", " ", " ", " ", " ", " ", " ", " ",
      " ", " ", " ", " ", " ", " ", " ", " ", " ", " ", "\"", "i", "n", "d", "e", "x",
      "\"", ":", " ", "1", ",", "\n", " ", " ", " ", " ", " ", " ", " ", " ", " ", " ",
      " ", " ", " ", " ", " ", " ", " ", " ", " ", " ", " ", " ", " ", " ", " ", " ", " ",
      " ", "\"", "f", "i", "n", "i", "s", "h", "_", "r", "e", "a", "s", "o", "n", "\"",
      ":", " ", "\"", "l", "e", "n", "g", "t", "h", "\"", ",", "\n", " ", " ", " ", " ",
      " ", " ", " ", " ", " ", " ", " ", " ", " ", " ", " ", " ", " ", " ", " ", " ", " ",
      " ", " ", " ", " ", " ", " ", " ", "\"", "d", "e", "l", "t", "a", "\"", ":", " ",
      "{", "\n", " ", " ", " ", " ", " ", " ", " ", " ", " ", " ", " ", " ", " ", " ", " ",
      " ", " ", " ", " ", " ", " ", " ", " ", " ", " ", " ", " ", " ", " ", " ", " ", " ",
      "\"", "r", "o", "l", "e", "\"", ":", " ", "\"", "a", "s", "s", "i", "s", "t", "a",
      "n", "t", "\"", ",", "\n", " ", " ", " ", " ", " ", " ", " ", " ", " ", " ", " ",
      " ", " ", " ", " ", " ", " ", " ", " ", " ", " ", " ", " ", " ", " ", " ", " ", " ",
      " ", " ", " ", " ", "\"", "c", "o", "n", "t", "e", "n", "t", "\"", ":", " ", "\"",
      "Y", "o", "u", " ", "a", "r", "e", " ", "a", " ", "h", "e", "l", "p", "f", "u", "l",
      " ", "a", "s", "s", "i", "s", "t", "a", "n", "t", ".", "\"", "\n", " ", " ", " ",
      " ", " ", " ", " ", " ", " ", " ", " ", " ", " ", " ", " ", " ", " ", " ", " ", " ",
      " ", " ", " ", " ", " ", " ", " ", " ", "}", "\n", " ", " ", " ", " ", " ", " ", " ",
      " ", " ", " ", " ", " ", " ", " ", " ", " ", " ", " ", " ", " ", " ", " ", " ", " ",
      "}", ",", "\n", " ", " ", " ", " ", " ", " ", " ", " ", " ", " ", " ", " ", " ", " ",
      " ", " ", " ", " ", " ", " ", " ", " ", " ", " ", "{", "\n", " ", " ", " ", " ", " ",
      " ", " ", " ", " ", " ", " ", " ", " ", " ", " ", " ", " ", " ", " ", " ", " ", " ",
      " ", " ", " ", " ", " ", " ", "\"", "i", "n", "d", "e", "x", "\"", ":", " ", "2",
      ",", "\n", " ", " ", " ", " ", " ", " ", " ", " ", " ", " ", " ", " ", " ", " ", " ",
      " ", " ", " ", " ", " ", " ", " ", " ", " ", " ", " ", " ", " ", "\"", "f", "i", "n",
      "i", "s", "h", "_", "r", "e", "a", "s", "o", "n", "\"", ":", " ", "\"", "f", "u",
      "n", "c", "t", "i", "o", "n", "_", "c", "a", "l", "l", "\"", ",", "\n", " ", " ",
      " ", " ", " ", " ", " ", " ", " ", " ", " ", " ", " ", " ", " ", " ", " ", " ", " ",
      " ", " ", " ", " ", " ", " ", " ", " ", " ", "\"", "d", "e", "l", "t", "a", "\"",
      ":", " ", "{", "\n", " ", " ", " ", " ", " ", " ", " ", " ", " ", " ", " ", " ", " ",
      " ", " ", " ", " ", " ", " ", " ", " ", " ", " ", " ", " ", " ", " ", " ", " ", " ",
      " ", " ", "\"", "r", "o", "l", "e", "\"", ":", " ", "\"", "a", "s", "s", "i", "s",
      "t", "a", "n", "t", "\"", ",", "\n", " ", " ", " ", " ", " ", " ", " ", " ", " ",
      " ", " ", " ", " ", " ", " ", " ", " ", " ", " ", " ", " ", " ", " ", " ", " ", " ",
      " ", " ", " ", " ", " ", " ", "\"", "f", "u", "n", "c", "t", "i", "o", "n", "_", "c",
      "a", "l", "l", "\"", ":", " ", "{", "\n", " ", " ", " ", " ", " ", " ", " ", " ",
      " ", " ", " ", " ", " ", " ", " ", " ", " ", " ", " ", " ", " ", " ", " ", " ", " ",
      " ", " ", " ", " ", " ", " ", " ", " ", " ", " ", " ", "\"", "r", "o", "l", "e",
      "\"", ":", " ", "\"", "g", "e", "t", "_", "w", "e", "a", "t", "h", "e", "r", "\"",
      ",", "\n", " ", " ", " ", " ", " ", " ", " ", " ", " ", " ", " ", " ", " ", " ", " ",
      " ", " ", " ", " ", " ", " ", " ", " ", " ", " ", " ", " ", " ", " ", " ", " ", " ",
      " ", " ", " ", " ", "\"", "a", "r", "g", "u", "m", "e", "n", "t", "s", "\"", ":",
      " ", "\"", "{", "\\", "\"", "l", "o", "c", "\\", "\"", ":", " ", "\\", "\"", "L",
      "o", "s", " ", "A", "n", "g", "e", "l", "e", "s", "\\", "\"", "}", "\"", "\n", " ",
      " ", " ", " ", " ", " ", " ", " ", " ", " ", " ", " ", " ", " ", " ", " ", " ", " ",
      " ", " ", " ", " ", " ", " ", " ", " ", " ", " ", " ", " ", " ", " ", "}", "\n", " ",
      " ", " ", " ", " ", " ", " ", " ", " ", " ", " ", " ", " ", " ", " ", " ", " ", " ",
      " ", " ", " ", " ", " ", " ", " ", " ", " ", " ", "}", "\n", " ", " ", " ", " ", " ",
      " ", " ", " ", " ", " ", " ", " ", " ", " ", " ", " ", " ", " ", " ", " ", " ", " ",
      " ", " ", "}", "\n", " ", " ", " ", " ", " ", " ", " ", " ", " ", " ", " ", " ", " ",
      " ", " ", " ", " ", " ", " ", " ", "]", "\n", " ", " ", " ", " ", " ", " ", " ", " ",
      " ", " ", " ", " ", " ", " ", " ", " ", "}">>

Str_chatcmpl_123 ==
    <<"c", "h", "a", "t", "c", "m", "p", "l", "-", "1", "2", "3">>

Str_chat_completion_chunk ==
    <<"c", "h", "a", "t", ".", "c", "o", "m", "p", "l", "e", "t", "i", "o", "n", ".", "c",
      "h", "u", "n", "k">>

Str_gpt_3_5_turbo ==
    <<"g", "p", "t", "-", "3", ".", "5", "-", "t", "u", "r", "b", "o">>

Str_stop ==
    <<"s", "t", "o", "p">>

Str_length ==
    <<"l", "e", "n", "g", "t", "h">>

Str_function_call ==
    <<"f", "u", "n", "c", "t", "i", "o", "n", "_", "c", "a", "l", "l">>

Str_system ==
    <<"s", "y", "s", "t", "e", "m">>

Str_assistant ==
    <<"a", "s", "s", "i", "s", "t", "a", "n", "t">>

Str_helpful ==
    <<"Y", "o", "u", " ", "a", "r", "e", " ", "a", " ", "h", "e", "l", "p", "f", "u", "l",
      " ", "a", "s", "s", "i", "s", "t", "a", "n", "t", ".">>

Str_get_weather ==
    <<"g", "e", "t", "_", "w", "e", "a", "t", "h", "e", "r">>

Str_loc ==
    <<"{", "\"", "l", "o", "c", "\"", ":", " ", "\"", "L", "o", "s", " ", "A", "n", "g",
      "e", "l", "e", "s", "\"", "}">>

Num_1677652288 ==
    <<"1", "6", "7", "7", "6", "5", "2", "2", "8", "8">>

\* the chunk the test expects beside each payload frame (lines 384-386,
\* 396-402, 421-435, 473-510)
TestChunk5 ==
    [id |-> <<>>, object |-> <<>>, created |-> <<"0">>, model |-> <<>>, choices |-> <<>>]

TestChunk6 ==
    [id |-> Str_chatcmpl_123, object |-> Str_chat_completion_chunk,
     created |-> Num_1677652288, model |-> Str_gpt_3_5_turbo, choices |-> <<>>]

TestChunk7 ==
    [id |-> Str_chatcmpl_123, object |-> Str_chat_completion_chunk,
     created |-> Num_1677652288, model |-> Str_gpt_3_5_turbo,
     choices |-> <<
        [index |-> <<"0">>, finish_reason |-> Some(Str_stop),
         delta |-> [role |-> Str_system, content |-> Some(Str_helpful),
                    function_call |-> None]] >>]

TestChunk8 ==
    [id |-> Str_chatcmpl_123, object |-> Str_chat_completion_chunk,
     created |-> Num_1677652288, model |-> Str_gpt_3_5_turbo,
     choices |-> <<
        [index |-> <<"0">>, finish_reason |-> Some(Str_stop),
         delta |-> [role |-> Str_assistant, content |-> Some(Str_helpful),
                    function_call |-> None]],
        [index |-> <<"1">>, finish_reason |-> Some(Str_length),
         delta |-> [role |-> Str_assistant, content |-> Some(Str_helpful),
                    function_call |-> None]],
        [index |-> <<"2">>, finish_reason |-> Some(Str_function_call),
         delta |-> [role |-> Str_assistant, content |-> None,
                    function_call |-> Some([name |-> Str_get_weather,
                                            arguments |-> Str_loc])]] >>]

\* the frames of the cases, dtypes.rs lines 371-472, in their order
TestFrames ==
    << <<>>,
       <<"{", "{">>,
       <<"d", " ", "a", " ", "t", " ", "a", " ", ":">>,
       <<"d", "a", "t", "a", ":", " ", "[", "D", "O", "N", "E", "]">>,
       <<"d", "a", "t", "a", ":", " ", "[", "D", "O", "N", "E", "]", "\n", "\n">>,
       TestFrame5, TestFrame6, TestFrame7, TestFrame8 >>

\* what the test expects of each case: Res::IsErr, Res::IsDone, Res::IsChunk
TestExpected ==
    <<[res |-> "IsErr"], [res |-> "IsErr"], [res |-> "IsErr"], [res |-> "IsDone"],
      [res |-> "IsDone"], [res |-> "IsChunk", chunk |-> TestChunk5],
      [res |-> "IsChunk", chunk |-> TestChunk6], [res |-> "IsChunk", chunk |-> TestChunk7],
      [res |-> "IsChunk", chunk |-> TestChunk8]>>

(***************************************************************************)
(* Bounds of the inputs                                                    *)
(***************************************************************************)
\* the longest run of whitespace around the parts of a frame
MaxWs == 1

\* the longest arguments string, function name and stop token drawn freely
MaxStrLen == 2

\* the most choices of a chunk, and the most tokens of a StopToken
MaxItems == 2

(***************************************************************************)
(* Inputs: texts                                                           *)
(***************************************************************************)
\* every sequence over the alphabet A of length 0 .. n
Strings(A, n) == UNION {[1..k -> A] : k \in 0..n}

\* runs of one whitespace character
WsRuns == {<<>>} \cup {[j \in 1..k |-> c] : c \in {" ", "\n", "\f"}, k \in 1..MaxWs}

Str_Hi == <<"H", "i">>

Str_x == <<"x">>

\* what may stand where the prefix "data:" is expected
Prefixes ==
    { <<>>, DATA, <<"d", " ", "a", " ", "t", " ", "a", " ", ":">>, <<"d", "a", "t", "a">>,
      <<"D", "a", "t", "a", ":">> }

\* an optional member of an object: left out, given as null, or given
How == {"absent", "null", "present"}

OptMember(k, how, t) ==
    CASE how = "absent" -> <<>>
      [] how = "null" -> <<Member(k, JNull)>>
      [] how = "present" -> <<Member(k, t)>>

FunctionCallTree(n, a) ==
    JObj(<<Member(Chars.name, JStr(n)), Member(Chars.arguments, JStr(a))>>)

\* the delta of the choice described by c
DeltaTree(c) ==
    JObj(OptMember(Chars.role, c.role, JStr(Str_assistant))
         \o OptMember(Chars.content, c.content, JStr(Str_Hi))
         \o OptMember(Chars.function_call, c.function_call,
                      FunctionCallTree(Str_get_weather, c.arguments)))

ChoiceTree(c) ==
    JObj(<<Member(Chars.index, JNum(c.index)), Member(Chars.delta, DeltaTree(c))>>
         \o OptMember(Chars.finish_reason, c.finish_reason, JStr(c.reason)))

ChunkMembers(choices) ==
    << Member(Chars.id, JStr(Str_chatcmpl_123)),
       Member(Chars.object, JStr(Str_chat_completion_chunk)),
       Member(Chars.created, JNum(Num_1677652288)),
       Member(Chars.model, JStr(Str_gpt_3_5_turbo)),
       Member(Chars.choices, JArr(choices)) >>

ChunkTree(cs) == JObj(ChunkMembers([j \in 1..Len(cs) |-> ChoiceTree(cs[j])]))

Choice(idx, role, content, fc, args, fin, reason) ==
    [index |-> idx, role |-> role, content |-> content, function_call |-> fc,
     arguments |-> args, finish_reason |-> fin, reason |-> reason]

\* one choice, each optional part of it absent, null or present
DeltaChoices ==
    { Choice(<<"0">>, r, c, f, Str_loc, n, Str_stop) : r \in How, c \in How, f \in How, n \in How }

\* argument strings: every short string over characters that need escaping
\* or look like JSON, and some longer ones
ArgStrings ==
    Strings({"{", "\"", "\\", " ", "\n", "/", "U+0001", "U+00E9"}, MaxStrLen)
    \cup { Str_loc, <<"{", "\"", "a", "\"", ":", " ", " ", "1", "\t", "}">>,
           <<"n", "o", "t", " ", "j", "s", "o", "n", " ", "{">>,
           <<"\\", "u", "0", "0", "4", "1">> }

ArgChoice(a) ==
    Choice(<<"0">>, "present", "absent", "present", a, "present", Str_function_call)

\* three well-formed choices that differ in index and finish_reason
ChoicePool ==
    << Choice(<<"0">>, "present", "present", "absent", <<>>, "present", Str_stop),
       Choice(<<"1">>, "present", "present", "absent", <<>>, "absent", <<>>),
       Choice(<<"2">>, "present", "absent", "present", Str_loc, "present", Str_function_call) >>

ChoiceOrders == UNION {[1..k -> 1..Len(ChoicePool)] : k \in 0..MaxItems}

\* a chunk of one well-formed choice, and documents that differ from it
BaseChoiceTree == ChoiceTree(ChoicePool[1])

BaseChunk == ChunkMembers(<<BaseChoiceTree>>)

Drop(o, k) == SubSeq(o, 1, k - 1) \o SubSeq(o, k + 1, Len(o))

Replace(o, k, t) == [o EXCEPT ![k] = Member(o[k].k, t)]

Values(o) == [j \in 1..Len(o) |-> o[j].v]

WithCreated(lit) == JObj(Replace(BaseChunk, 3, JNum(lit)))

WithChoice(t) == JObj(Replace(BaseChunk, 5, JArr(<<t>>)))

ShapeTrees ==
    { JObj(BaseChunk),
      JObj(BaseChunk \o <<Member(Chars.usage, JNull)>>),
      JObj(<<Member(Chars.usage, JArr(<<JBool(TRUE), JNum(<<"-", "1", ".", "5", "e", "3">>)>>))>>
           \o BaseChunk),
      JObj([j \in 1..5 |-> BaseChunk[6 - j]]),
      JArr(Values(BaseChunk)),
      JArr(SubSeq(Values(BaseChunk), 1, 4)),
      JArr(Values(BaseChunk) \o <<JNull>>),
      JArr(<<>>), JObj(<<>>), JNull, JBool(TRUE), JNum(<<"0">>), JStr(DONE), JStr(<<>>),
      JArr(<<JStr(DONE)>>) }
    \cup { JObj(Drop(BaseChunk, k)) : k \in 1..5 }
    \cup { JObj(Replace(BaseChunk, k, JNull)) : k \in 1..5 }
    \cup { JObj(Replace(BaseChunk, k, JBool(FALSE))) : k \in 1..5 }
    \cup { JObj(Replace(BaseChunk, k, BaseChunk[(k % 5) + 1].v)) : k \in 1..5 }
    \cup { JObj(BaseChunk \o <<BaseChunk[k]>>) : k \in 1..5 }
    \cup { WithCreated(lit) :
             lit \in { <<"0">>, <<"-", "1">>, <<"-", "0">>, <<"1", ".", "0">>, <<"1", "e", "2">>,
                       U64Max, [U64Max EXCEPT ![20] = "6"], U64Max \o <<"0">> } }
    \cup { WithChoice(t) :
             t \in { JNull, JObj(<<>>), JStr(Str_stop),
                     JObj(Drop(BaseChoiceTree.o, 1)), JObj(Drop(BaseChoiceTree.o, 2)),
                     JObj(Drop(BaseChoiceTree.o, 3)),
                     JObj(Replace(BaseChoiceTree.o, 2, JNull)),
                     JObj(Replace(BaseChoiceTree.o, 2, JArr(<<JStr(Str_system), JNull, JNull>>))),
                     JObj(Replace(BaseChoiceTree.o, 2, JArr(<<JStr(Str_system), JNull>>))),
                     JObj(Replace(BaseChoiceTree.o, 2,
                            JObj(<<Member(Chars.role, JStr(Str_system)),
                                   Member(Chars.function_call,
                                          JObj(<<Member(Chars.role, JStr(Str_get_weather)),
                                                 Member(Chars.arguments, JStr(Str_loc))>>))>>))),
                     JObj(Replace(BaseChoiceTree.o, 2,
                            JObj(<<Member(Chars.role, JStr(Str_system)),
                                   Member(Chars.function_call,
                                          JArr(<<JStr(Str_get_weather), JStr(Str_loc)>>))>>))),
                     JArr(Values(BaseChoiceTree.o)) } }

\* what may stand after the prefix
Bodies ==
    { <<>>, DONE, <<"[", "d", "o", "n", "e", "]">>, <<"[", "D", "O", "N", "E", "]", " ", "x">>,
      <<"{", "{">>, <<"[", "D", "O", "N", "E">>, <<"D", "O", "N", "E">>,
      <<"[", " ", "D", "O", "N", "E", " ", "]">>, <<"[", "D", "O", "N", "E", "]", "]">>,
      <<"x", "[", "D", "O", "N", "E", "]">>,
      write_value(JObj(ChunkMembers(<<>>))) }

\* the frame of a payload document, as the API sends it
PayloadFrame(t) == DATA \o <<" ">> \o write_value(t)

(***************************************************************************)
(* Inputs: values                                                          *)
(***************************************************************************)
FunctionCallTypes ==
    { FunctionCallType_None, FunctionCallType_Auto }
    \cup { FunctionCallType_Name(x) : x \in Strings({"f", "\"", "\n"}, MaxStrLen) }
    \cup { FunctionCallType_Name(x) : x \in {Chars.none, Chars.auto, Chars.name} }

SingleTokens == { SingleToken(s) : s \in Strings({"a", "\\", ","}, MaxStrLen) }

ManyTokens == { MultipleTokens(v) : v \in Strings(Strings({"a", "]"}, 1), MaxItems) }

\* JSON documents offered to the decoder of FunctionCallType
FunctionCallTypeTrees ==
    { JStr(s) : s \in { Chars.none, Chars.auto, Chars.name, <<>>, Str_x,
                        <<"N", "o", "n", "e">>, <<"A", "u", "t", "o">> } }
    \cup { JObj(<<Member(k, v)>>) :
             k \in { Chars.none, Chars.auto, Chars.name, Str_x, <<"N", "a", "m", "e">> },
             v \in { JNull, JStr(Str_x), JStr(<<>>), JNum(<<"1">>), JBool(TRUE), JObj(<<>>),
                     JArr(<<>>), JArr(<<JStr(Str_x)>>) } }
    \cup { JObj(<<Member(Chars.name, JStr(Str_x)), Member(k, v)>>) :
             k \in { Chars.name, Chars.none, Str_x }, v \in { JNull, JStr(Str_x) } }
    \cup { JObj(<<Member(Chars.none, JNull), Member(Chars.name, JStr(Str_x))>>),
           JObj(<<>>), JNull, JNum(<<"0">>), JBool(FALSE), JArr(<<>>),
           JArr(<<JStr(Chars.none)>>), JArr(<<JStr(Chars.name), JStr(Str_x)>>) }

\* JSON documents offered to the decoder of StopToken
StopTokenTrees ==
    { JStr(s) : s \in { <<>>, Str_x, Str_stop } }
    \cup { JArr(a) : a \in Strings({ JStr(Str_x), JStr(<<>>), JNull, JNum(<<"1">>),
                                     JArr(<<JStr(Str_x)>>) }, MaxItems) }
    \cup { JNull, JNum(<<"1">>), JBool(TRUE), JObj(<<>>),
           JObj(<<Member(Str_x, JStr(Str_x))>>) }

F64_NaN == <<"N", "a", "N">>

\* the optional fields of ChatCompletionRequest, each with a value to give it
RequestOptions ==
    [ function_call |-> FunctionCallType_Auto,
      temperature |-> <<"1", ".", "0">>,
      top_p |-> <<"0", ".", "1">>,
      n |-> <<"1">>,
      stream |-> TRUE,
      stop |-> SingleToken(Str_stop),
      max_tokens |-> <<"1", "6">>,
      presence_penalty |-> <<"-", "2", ".", "0">>,
      frequency_penalty |-> <<"0", ".", "5">>,
      logit_bias |-> <<[k |-> <<"5", "0", "2", "5", "6">>, v |-> <<"-", "1", "0", "0", ".", "0">>]>>,
      user |-> Str_x ]

Messages ==
    { [role |-> Str_system, content |-> c, function_call |-> f] :
        c \in {None, Some(Str_Hi)},
        f \in {None, Some([name |-> Str_get_weather, arguments |-> Str_loc])} }

Functions ==
    { [name |-> Str_get_weather, description |-> d, parameters |-> p] :
        d \in {None, Some(Str_Hi)}, p \in {JNull, JObj(<<>>)} }

\* a request whose optional fields are those of the set present
Request(present, messages, functions) ==
    [ n \in FieldNames(ChatCompletionRequest) |->
        IF n = "model" THEN Str_gpt_3_5_turbo
        ELSE IF n = "messages" THEN messages
        ELSE IF n = "functions" THEN functions
        ELSE IF n \in present THEN Some(RequestOptions[n])
        ELSE None ]

Requests ==
    { Request(p, <<m>>, <<>>) : p \in SUBSET {"function_call", "temperature", "stop", "user"},
                                m \in Messages }
    \cup { Request(DOMAIN RequestOptions \ {o}, <<>>, <<f>>) :
             o \in DOMAIN RequestOptions, f \in Functions }
    \cup { Request({o}, <<m>>, <<f>>) : o \in DOMAIN RequestOptions, m \in Messages, f \in Functions }
    \cup { Request(DOMAIN RequestOptions, <<>>, <<>>),
           [Request({}, <<>>, <<>>) EXCEPT !.temperature = Some(F64_NaN)] }

\* response bodies of the chat completion endpoint
CompletionMembers ==
    << Member(Chars.id, JStr(Str_chatcmpl_123)),
       Member(Chars.object, JStr(<<"c", "h", "a", "t", ".", "c", "o", "m", "p", "l", "e", "t", "i", "o", "n">>)),
       Member(Chars.created, JNum(Num_1677652288)),
       Member(Chars.model, JStr(Str_gpt_3_5_turbo)),
       Member(Chars.choices,
              JArr(<<JObj(<<Member(Chars.index, JNum(<<"0">>)),
                            Member(Chars.message,
                                   JObj(<<Member(Chars.role, JStr(Str_assistant)),
                                          Member(Chars.content, JStr(Str_Hi))>>)),
                            Member(Chars.finish_reason, JStr(Str_stop))>>)>>)),
       Member(Chars.usage,
              JObj(<<Member(Chars.prompt_tokens, JNum(<<"1">>)),
                     Member(Chars.completion_tokens, JNum(<<"2">>)),
                     Member(Chars.total_tokens, JNum(<<"3">>))>>)) >>

Responses ==
    { write_value(JObj(CompletionMembers)), write_value(JObj(Drop(CompletionMembers, 6))),
      <<"{", "{">> }

(***************************************************************************)
(* Client::create_chat_completion, as far as the data types decide it: the *)
(* request body it encodes and the response body it decodes.  The url,     *)
(* the transport and its answer are the caller's and the network's.        *)
(***************************************************************************)
ErrBaseUrl == "Failed to parse self.base_url"

ErrSend == "Failed to send request"

ErrJson == "Failed to parse response as json"

\* the answer [body, res]: the body handed to the transport (None when the
\* request was never built) and the Result<ChatCompletionObject>
create_chat_completion(req, net) ==
    LET body == Some(to_string(TStruct("ChatCompletionRequest"), req)) IN
    IF ~net.base_url_ok THEN [body |-> None, res |-> Err(ErrBaseUrl)]
    ELSE IF ~net.sent THEN [body |-> body, res |-> Err(ErrSend)]
    ELSE [body |-> body,
          res |-> map_err(from_str(TStruct("ChatCompletionObject"), net.response), ErrJson)]

\* the response body whose choice gives the content and the function_call
\* of its message, and its finish_reason, as hows says
CompletionTree(hows) ==
    JObj(Replace(CompletionMembers, 5,
           JArr(<<JObj(<<Member(Chars.index, JNum(<<"0">>)),
                         Member(Chars.message,
                                JObj(<<Member(Chars.role, JStr(Str_assistant))>>
                                     \o OptMember(Chars.content, hows.content, JStr(Str_Hi))
                                     \o OptMember(Chars.function_call, hows.function_call,
                                                  FunctionCallTree(Str_get_weather, Str_loc))))>>
                       \o OptMember(Chars.finish_reason, hows.finish_reason,
                                    JStr(Str_stop)))>>)))

\* the network that answers with the body of CompletionTree(hows)
CompletionNetwork(hows) ==
    [base_url_ok |-> TRUE, sent |-> TRUE, response |-> write_value(CompletionTree(hows)),
     hows |-> hows]

Networks ==
    { [base_url_ok |-> FALSE, sent |-> FALSE, response |-> <<>>],
      [base_url_ok |-> TRUE, sent |-> FALSE, response |-> <<>>] }
    \cup { [base_url_ok |-> TRUE, sent |-> TRUE, response |-> r] : r \in Responses }

(***************************************************************************)
(* The state machine: a caller that holds one input and applies one        *)
(* operation to it.                                                        *)
(*   op       the operation: "from_chunk", "create_chat_completion", or    *)
(*            the enum whose Serialize and Deserialize are applied         *)
(*   pc       "call" before the operation, "ret" after it; for an enum     *)
(*            "value" (a value to encode), "wire" (a text to decode), "ret"*)
(*   frame    the frame handed to from_chunk                               *)
(*   outcome  what from_chunk returned                                     *)
(*   parsed   whether from_chunk called serde_json::from_str               *)
(*   value    the value to encode                                          *)
(*   wire     the encoded text, or the text to decode                      *)
(*   back     the decoded Result                                           *)
(*   given    how the input was formed                                     *)
(***************************************************************************)
Nil == "-"

TypeOf(o) == IF o = "FunctionCallType" THEN TFunctionCallType ELSE TStopToken

InitFromChunk(g, f) ==
    /\ op = "from_chunk" /\ pc = "call" /\ given = g /\ frame = f
    /\ outcome = Nil /\ parsed = FALSE /\ value = Nil /\ wire = Nil /\ back = Nil

InitValue(o, x) ==
    /\ op = o /\ pc = "value" /\ given = [family |-> "value"] /\ value = x
    /\ frame = Nil /\ outcome = Nil /\ parsed = FALSE /\ wire = Nil /\ back = Nil

InitWire(o, t, w1, w3) ==
    /\ op = o /\ pc = "wire" /\ given = [family |-> "wire", tree |-> t, pad |-> w1 \o w3]
    /\ wire = w1 \o write_value(t) \o w3
    /\ frame = Nil /\ outcome = Nil /\ parsed = FALSE /\ value = Nil /\ back = Nil

Init ==
    \/ \E w1 \in WsRuns, p \in Prefixes, w2 \in WsRuns, b \in Bodies, w3 \in WsRuns :
          InitFromChunk([family |-> "text", prefix |-> p, body |-> b],
                        w1 \o p \o w2 \o b \o w3)
    \/ \E k \in 1..Len(TestFrames) :
          InitFromChunk([family |-> "test", case |-> k], TestFrames[k])
    \/ \E c \in DeltaChoices :
          InitFromChunk([family |-> "delta", choice |-> c], PayloadFrame(ChunkTree(<<c>>)))
    \/ \E a \in ArgStrings :
          InitFromChunk([family |-> "arguments", a |-> a],
                        PayloadFrame(ChunkTree(<<ArgChoice(a)>>)))
    \/ \E o \in ChoiceOrders :
          InitFromChunk([family |-> "choices", order |-> o],
                        PayloadFrame(ChunkTree([j \in 1..Len(o) |-> ChoicePool[o[j]]])))
    \/ \E t \in ShapeTrees, w2 \in WsRuns, w3 \in WsRuns :
          InitFromChunk([family |-> "shape", tree |-> t],
                        DATA \o w2 \o write_value(t) \o w3)
    \/ \E x \in FunctionCallTypes : InitValue("FunctionCallType", x)
    \/ \E x \in SingleTokens : InitValue("StopToken", x)
    \/ \E x \in ManyTokens : InitValue("StopToken", x)
    \/ \E t \in FunctionCallTypeTrees, w1 \in WsRuns, w3 \in WsRuns :
          InitWire("FunctionCallType", t, w1, w3)
    \/ \E t \in StopTokenTrees, w1 \in WsRuns, w3 \in WsRuns : InitWire("StopToken", t, w1, w3)
    \/ \E r \in Requests, net \in Networks :
          /\ op = "create_chat_completion" /\ pc = "call" /\ given = net /\ value = r
          /\ frame = Nil /\ outcome = Nil /\ parsed = FALSE /\ wire = Nil /\ back = Nil
    \/ \E hows \in [content : How, function_call : How, finish_reason : How] :
          /\ op = "create_chat_completion" /\ pc = "call" /\ given = CompletionNetwork(hows)
          /\ value = Request({}, <<>>, <<>>)
          /\ frame = Nil /\ outcome = Nil /\ parsed = FALSE /\ wire = Nil /\ back = Nil

\* ChatCompletionChunk::from_chunk(frame)
FromChunk ==
    /\ op = "from_chunk" /\ pc = "call"
    /\ \E r \in {from_chunk(frame)} : outcome' = r.res /\ parsed' = r.parsed
    /\ pc' = "ret"
    /\ UNCHANGED <<op, frame, value, wire, back, given>>

\* serde_json::to_string(&value) for an enum
Serialize ==
    /\ op \in {"FunctionCallType", "StopToken"} /\ pc = "value"
    /\ wire' = to_string(TypeOf(op), value)
    /\ pc' = "wire"
    /\ UNCHANGED <<op, frame, outcome, parsed, value, back, given>>

\* serde_json::from_str(wire) for an enum
Deserialize ==
    /\ op \in {"FunctionCallType", "StopToken"} /\ pc = "wire"
    /\ back' = from_str(TypeOf(op), wire)
    /\ pc' = "ret"
    /\ UNCHANGED <<op, frame, outcome, parsed, value, wire, given>>

\* client.create_chat_completion(value) over the network given
CreateChatCompletion ==
    /\ op = "create_chat_completion" /\ pc = "call"
    /\ \E r \in {create_chat_completion(value, given)} : wire' = r.body /\ back' = r.res
    /\ pc' = "ret"
    /\ UNCHANGED <<op, frame, outcome, parsed, value, given>>

Next == FromChunk \/ Serialize \/ Deserialize \/ CreateChatCompletion

Spec == Init /\ [][Next]_vars

(***************************************************************************)
(* A stream: the frames of one streamed response, fed to from_chunk in the *)
(* order of receipt by a loop that stops at the first Ok(None)             *)
(***************************************************************************)
\* the longest stream
MaxStream == 3

\* frames a stream is made of: payload frames as the API sends them (the
\* first delta names the role, the next ones carry content only, the last
\* one is empty and its choice has the finish_reason), sentinel frames, and
\* frames that are neither
StreamFrames ==
    << [kind |-> "payload",
        frame |-> PayloadFrame(ChunkTree(<<Choice(<<"0">>, "present", "absent", "absent",
                                                  <<>>, "null", <<>>)>>))],
       [kind |-> "payload",
        frame |-> PayloadFrame(ChunkTree(<<Choice(<<"0">>, "absent", "present", "absent",
                                                  <<>>, "null", <<>>)>>))],
       [kind |-> "payload",
        frame |-> PayloadFrame(ChunkTree(<<Choice(<<"0">>, "absent", "absent", "absent",
                                                  <<>>, "present", Str_stop)>>))],
       [kind |-> "payload", frame |-> PayloadFrame(ChunkTree(<<>>))],
       [kind |-> "sentinel", frame |-> DATA \o <<" ">> \o DONE],
       [kind |-> "sentinel", frame |-> DATA \o DONE \o <<"\n", "\n">>],
       [kind |-> "other", frame |-> PayloadFrame(JNull)],
       [kind |-> "other", frame |-> PayloadFrame(JArr(<<>>))],
       [kind |-> "other", frame |-> PayloadFrame(JObj(<<>>))],
       [kind |-> "other", frame |-> PayloadFrame(JStr(DONE))],
       [kind |-> "other", frame |-> DONE] >>

\* a stream of up to MaxStream frames, nothing fed yet
StreamInit ==
    \E n \in 0..MaxStream : \E ix \in [1..n -> 1..Len(StreamFrames)] :
       /\ op = "stream" /\ pc = (IF n = 0 THEN "end" ELSE "next")
       /\ given = [family |-> "stream", ix |-> ix]
       /\ value = [j \in 1..n |-> StreamFrames[ix[j]].frame]
       /\ back = <<>>
       /\ frame = Nil /\ outcome = Nil /\ parsed = FALSE /\ wire = Nil

\* one turn of the loop: the next frame goes to from_chunk, its outcome is
\* kept, and the loop stops at Ok(None) or ends with the stream
Consume ==
    /\ op = "stream" /\ pc = "next"
    /\ frame' = value[Len(back) + 1]
    /\ \E r \in {from_chunk(value[Len(back) + 1])} :
          /\ outcome' = r.res /\ parsed' = r.parsed
          /\ back' = Append(back, r.res)
          /\ pc' = IF r.res = Ok(None) THEN "stop"
                   ELSE IF Len(back) + 1 = Len(value) THEN "end" ELSE "next"
    /\ UNCHANGED <<op, value, wire, given>>

StreamSpec == StreamInit /\ [][Consume]_vars



(***************************************************************************)
(* What the claims speak of, stated on the frame and on how it was formed  *)
(***************************************************************************)
Returned(o) == op = o /\ pc = "ret"

\* after leading whitespace the frame holds the prefix "data:"
HasPrefix(f) ==
    \E k \in 0..Len(f) :
        /\ k + 5 <= Len(f)
        /\ \A j \in 1..k : f[j] \in White_Space
        /\ \A j \in 1..5 : f[k + j] = DATA[j]

\* the frame is w1 "data:" w2 "[DONE]" w3 for runs of whitespace w1, w2, w3
IsSentinelFrame(f) ==
    \E a \in 0..(Len(f) - 11) :
      /\ f[a + 1] = DATA[1]
      /\ \E b \in 0..(Len(f) - 11 - a) :
        /\ f[a + 6 + b] = DONE[1]
        /\ \A j \in 1..Len(f) :
              IF j <= a THEN f[j] \in White_Space
              ELSE IF j <= a + 5 THEN f[j] = DATA[j - a]
              ELSE IF j <= a + 5 + b THEN f[j] \in White_Space
              ELSE IF j <= a + 11 + b THEN f[j] = DONE[j - a - 5 - b]
              ELSE f[j] \in White_Space

(* C1: a frame whose trimmed form does not start with "data:" gets the
   missing-prefix error, never Ok, and the JSON parser is never called. *)
C1_MissingPrefix ==
    (Returned("from_chunk") /\ ~HasPrefix(frame)) => (outcome = Err(ErrStart) /\ ~parsed)

\* a bare JSON chunk object without the prefix was refused
C1_Witness ==
    /\ Returned("from_chunk") /\ ~HasPrefix(frame)
    /\ frame = write_value(JObj(ChunkMembers(<<>>)))
    /\ outcome = Err(ErrStart)

(* C2: a frame w1 "data:" w2 "[DONE]" w3, with w1, w2, w3 runs of
   whitespace (empty or not), gets the terminal outcome Ok(None). *)
C2_Sentinel ==
    (Returned("from_chunk") /\ IsSentinelFrame(frame)) => outcome = Ok(None)

\* the sentinel with whitespace before the prefix, after it and at the end
C2_Witness ==
    /\ Returned("from_chunk") /\ IsSentinelFrame(frame)
    /\ Len(frame) > 11 /\ frame[1] \in White_Space /\ frame[Len(frame)] \in White_Space
    /\ HasPrefix(<<frame[1]>> \o SubSeq(frame, 2, 6))
    /\ frame[7] \in White_Space
    /\ outcome = Ok(None)

(***************************************************************************)
(* The shape of a payload, stated on the JSON document                     *)
(***************************************************************************)
\* the families of frames formed from a JSON document, and the document
JsonFamilies == {"delta", "arguments", "choices", "shape"}

PayloadTree ==
    CASE given.family = "shape" -> given.tree
      [] given.family = "delta" -> ChunkTree(<<given.choice>>)
      [] given.family = "arguments" -> ChunkTree(<<ArgChoice(given.a)>>)
      [] given.family = "choices" ->
            ChunkTree([j \in 1..Len(given.order) |-> ChoicePool[given.order[j]]])

\* the members of the object o that are named n
Named(o, n) == {k \in 1..Len(o) : o[k].k = Chars[n]}

\* the document t has the shape of the type ty: a struct is an object that
\* holds each field at most once, every field that is not an Option once,
\* each with a value of the field's shape (other members are free); with
\* seqToo it may also be an array of the fields' values in their order
RECURSIVE Matches(_, _, _)
Matches(ty, t, seqToo) ==
    CASE ty.ty = "String" -> t.t = "str"
      [] ty.ty = "u64" -> t.t = "num" /\ IsU64(t.lit)
      [] ty.ty = "Option" -> t.t = "null" \/ Matches(ty.of, t, seqToo)
      [] ty.ty = "Vec" -> t.t = "arr" /\ \A j \in 1..Len(t.a) : Matches(ty.of, t.a[j], seqToo)
      [] ty.ty = "struct" ->
            \/ /\ t.t = "obj"
               /\ \A j \in 1..Len(StructFields(ty.name)) :
                     LET f == StructFields(ty.name)[j]
                         at == Named(t.o, f.name)
                     IN  \/ at = {} /\ f.ty.ty = "Option"
                         \/ \E k \in at : at = {k} /\ Matches(f.ty, t.o[k].v, seqToo)
            \/ /\ seqToo /\ t.t = "arr" /\ Len(t.a) = Len(StructFields(ty.name))
               /\ \A j \in 1..Len(t.a) : Matches(StructFields(ty.name)[j].ty, t.a[j], seqToo)

\* the frame has the prefix, and its content is neither the sentinel nor a
\* document of the shape of ChatCompletionChunk
NotPayload(seqToo) ==
    \/ /\ given.family = "text" /\ HasPrefix(frame)
       /\ given.body \notin {DONE, write_value(JObj(ChunkMembers(<<>>)))}
    \/ /\ given.family \in JsonFamilies
       /\ ~Matches(TStruct("ChatCompletionChunk"), PayloadTree, seqToo)

(* C3, as amended: a frame with the prefix whose content is neither
   "[DONE]" nor a JSON document of the shape of ChatCompletionChunk (an
   object, or an array of the fields in their order, at every struct) gets
   the error of the JSON decoder, which is neither the missing-prefix error
   nor the terminal outcome. *)
C3_InvalidPayload ==
    (Returned("from_chunk") /\ NotPayload(TRUE)) =>
        (outcome = Err(SerdeError) /\ parsed /\ outcome # Err(ErrStart) /\ outcome # Ok(None))

\* content that only begins with the sentinel was refused by the decoder
C3_Witness ==
    /\ Returned("from_chunk") /\ NotPayload(TRUE)
    /\ given.family = "text" /\ given.body = DONE \o <<" ", "x">>
    /\ outcome = Err(SerdeError)

(* C3, as claimed: a frame with the prefix whose content is neither
   "[DONE]" nor a JSON object of the shape of ChatCompletionChunk gets the
   invalid-payload error. *)
C3_ObjectOnly ==
    (Returned("from_chunk") /\ NotPayload(FALSE)) => outcome = Err(SerdeError)

(* C4: every case of the test chat_completion_chunk_from_chunk holds: the
   frame's outcome is the one listed beside it, an error, the terminal
   outcome, or exactly the expected chunk. *)
C4_TestCases ==
    (Returned("from_chunk") /\ given.family = "test") =>
        LET e == TestExpected[given.case] IN
        CASE e.res = "IsErr" -> ~outcome.ok
          [] e.res = "IsDone" -> outcome = Ok(None)
          [] e.res = "IsChunk" -> outcome = Ok(Some(e.chunk))

\* the fields of the struct value x that are None are not members of the object t
OmitsAbsent(fs, x, t) ==
    /\ t.t = "obj"
    /\ \A j \in 1..Len(fs) :
          (fs[j].ty.ty = "Option" /\ x[fs[j].name] = None) => Named(t.o, fs[j].name) = {}

(* C5: in the body encoded for a request, every optional field that is
   absent is left out of its JSON object: of the request, of each message
   and of each function. *)
C5_AbsentOmitted ==
    (Returned("create_chat_completion") /\ wire # None) =>
        LET d == parse_document(wire.v)
            ms == d.v.o[CHOOSE k \in Named(d.v.o, "messages") : TRUE].v
            fns == d.v.o[CHOOSE k \in Named(d.v.o, "functions") : TRUE].v
        IN  /\ d.ok
            /\ OmitsAbsent(ChatCompletionRequest, value, d.v)
            /\ \A j \in 1..Len(value.messages) :
                  OmitsAbsent(ChatCompletionMessage, value.messages[j], ms.a[j])
            /\ \A j \in 1..Len(value.functions) :
                  OmitsAbsent(Function, value.functions[j], fns.a[j])

Quoted(s) == <<"\"">> \o s \o <<"\"">>

(* C6: FunctionCallType::None is written as the JSON string "none", Auto as
   the JSON string "auto", Name(x) as the object of the one member "name"
   holding the string x, and reading back what was written gives the value. *)
C6_FunctionCallType ==
    /\ (op = "FunctionCallType" /\ given.family = "value" /\ pc \in {"wire", "ret"}) =>
          CASE value.variant = "None" -> wire = Quoted(Chars.none)
            [] value.variant = "Auto" -> wire = Quoted(Chars.auto)
            [] value.variant = "Name" ->
                  /\ wire[1] = "{"
                  /\ parse_document(wire) = Ok(JObj(<<Member(Chars.name, JStr(value.x))>>))
    /\ (Returned("FunctionCallType") /\ given.family = "value") => back = Ok(value)

\* a function that is named "none" came back as Name("none")
C6_Witness ==
    /\ Returned("FunctionCallType") /\ given.family = "value"
    /\ value = FunctionCallType_Name(Chars.none)
    /\ back = Ok(value)

\* the document is the string "none" or "auto", or an object of the one
\* member "name" holding a string
NamesVariant(t) ==
    \/ t.t = "str" /\ t.s \in {Chars.none, Chars.auto}
    \/ t.t = "obj" /\ Len(t.o) = 1 /\ t.o[1].k = Chars.name /\ t.o[1].v.t = "str"

\* the document is an object of the one member "none" or "auto" holding null
UnitVariantAsMap(t) ==
    t.t = "obj" /\ Len(t.o) = 1 /\ t.o[1].k \in {Chars.none, Chars.auto} /\ t.o[1].v.t = "null"

(* C7, as amended: decoding a FunctionCallType fails for every JSON value
   other than the strings "none" and "auto", an object of the one member
   "name" holding a string, and an object of the one member "none" or
   "auto" holding null. *)
C7_DecodeRejects ==
    (Returned("FunctionCallType") /\ given.family = "wire"
        /\ ~NamesVariant(given.tree) /\ ~UnitVariantAsMap(given.tree)) => ~back.ok

\* the bare string "name" was refused
C7_Witness ==
    /\ Returned("FunctionCallType") /\ given.family = "wire"
    /\ given.tree = JStr(Chars.name) /\ given.pad = <<>>
    /\ ~back.ok

(* C7, as claimed: decoding a FunctionCallType fails for every JSON value
   other than the strings "none" and "auto" and an object with a "name"
   member holding a string; an object keyed "none" or "auto" is refused. *)
C7_OnlyThreeForms ==
    (Returned("FunctionCallType") /\ given.family = "wire" /\ ~NamesVariant(given.tree)) =>
        ~back.ok

\* what a StopToken is written as
StopTokenTree(x) ==
    IF x.variant = "SingleToken" THEN JStr(x.s) ELSE JArr([j \in 1..Len(x.v) |-> JStr(x.v[j])])

(* C8: a JSON string decodes to SingleToken, an array of strings to
   MultipleTokens in the same order, anything else fails; SingleToken(s)
   is written as the string s, MultipleTokens(v) as an array, and reading
   back what was written gives the value. *)
C8_StopToken ==
    /\ (Returned("StopToken") /\ given.family = "wire") =>
          LET t == given.tree IN
          IF \E j \in 1..Len(given.pad) : given.pad[j] \notin JsonWhitespace THEN ~back.ok
          ELSE IF t.t = "str" THEN back = Ok(SingleToken(t.s))
          ELSE IF t.t = "arr" /\ \A j \in 1..Len(t.a) : t.a[j].t = "str"
              THEN back = Ok(MultipleTokens([j \in 1..Len(t.a) |-> t.a[j].s]))
          ELSE ~back.ok
    /\ (op = "StopToken" /\ given.family = "value" /\ pc \in {"wire", "ret"}) =>
          parse_document(wire) = Ok(StopTokenTree(value))
    /\ (Returned("StopToken") /\ given.family = "value") => back = Ok(value)

\* an array of one token came back as MultipleTokens of one token
C8_Witness ==
    /\ Returned("StopToken") /\ given.family = "value"
    /\ value.variant = "MultipleTokens" /\ Len(value.v) = 1
    /\ wire[1] = "[" /\ back = Ok(value)

\* the part of a delta given as how
Part(how, x) == IF how = "present" THEN Some(x) ELSE None

(* C9: whichever of role, content and function_call the delta of a choice
   carries, and with or without finish_reason, the frame decodes to a
   chunk, and the parts left out are absent in it. *)
C9_PartialDelta ==
    (Returned("from_chunk") /\ given.family = "delta"
        /\ "null" \notin {given.choice.role, given.choice.content,
                          given.choice.function_call, given.choice.finish_reason}) =>
        /\ outcome.ok /\ outcome.v.some /\ Len(outcome.v.v.choices) = 1
        /\ LET c == given.choice
               ch == outcome.v.v.choices[1]
           IN  /\ ch.delta.content = Part(c.content, Str_Hi)
               /\ ch.delta.function_call =
                     Part(c.function_call, [name |-> Str_get_weather, arguments |-> c.arguments])
               /\ ch.finish_reason = Part(c.finish_reason, c.reason)

(* C10: the arguments of a function call come out of the decoder exactly
   as the string the frame holds, whatever the string, and the choices of
   the chunk come out in the frame's order, each with its index and its
   finish_reason. *)
C10_Verbatim ==
    /\ (Returned("from_chunk") /\ given.family = "arguments") =>
          /\ outcome.ok /\ outcome.v.some /\ Len(outcome.v.v.choices) = 1
          /\ outcome.v.v.choices[1].delta.function_call =
                Some([name |-> Str_get_weather, arguments |-> given.a])
    /\ (Returned("from_chunk") /\ given.family = "choices") =>
          /\ outcome.ok /\ outcome.v.some /\ Len(outcome.v.v.choices) = Len(given.order)
          /\ \A j \in 1..Len(given.order) :
                LET c == ChoicePool[given.order[j]]
                    ch == outcome.v.v.choices[j]
                IN  /\ ch.index = c.index
                    /\ ch.finish_reason = Part(c.finish_reason, c.reason)

\* arguments that are not JSON, a brace and a quote, came out as they were
C10_Witness ==
    /\ Returned("from_chunk") /\ given.family = "arguments"
    /\ given.a = <<"{", "\"">>
    /\ outcome.ok /\ outcome.v.some
    /\ outcome.v.v.choices[1].delta.function_call.v.arguments = <<"{", "\"">>

\* how with an explicit null replaced by leaving the member out
Omitted(how) == IF how = "null" THEN "absent" ELSE how

\* the choice c of a chunk with every null of it left out
OmittedChoice(c) ==
    [c EXCEPT !.role = Omitted(@), !.content = Omitted(@), !.function_call = Omitted(@),
              !.finish_reason = Omitted(@)]

(* C11: in a response, a field given as null decodes as the same field
   left out does.  The outcome for a chunk or a completion with nulls is the
   outcome for the same body with those members left out, never an error
   where that one is a value; and where the body is valid, the optional
   fields content, function_call and (of a chunk's choice) finish_reason
   are absent in the value whether they were null or left out. *)
C11_NullIsAbsent ==
    /\ (Returned("from_chunk") /\ given.family = "delta") =>
          LET c == given.choice IN
          /\ outcome = from_chunk(PayloadFrame(ChunkTree(<<OmittedChoice(c)>>))).res
          /\ c.role = "present" =>
                /\ outcome.ok /\ outcome.v.some /\ Len(outcome.v.v.choices) = 1
                /\ outcome.v.v.choices[1].delta.content = Part(c.content, Str_Hi)
                /\ outcome.v.v.choices[1].delta.function_call =
                      Part(c.function_call,
                           [name |-> Str_get_weather, arguments |-> c.arguments])
                /\ outcome.v.v.choices[1].finish_reason = Part(c.finish_reason, c.reason)
    /\ (Returned("create_chat_completion") /\ "hows" \in DOMAIN given) =>
          LET h == given.hows
              o == [content |-> Omitted(h.content), function_call |-> Omitted(h.function_call),
                    finish_reason |-> Omitted(h.finish_reason)]
          IN  /\ back = create_chat_completion(value, CompletionNetwork(o)).res
              /\ h.finish_reason = "present" =>
                    /\ back.ok /\ Len(back.v.choices) = 1
                    /\ back.v.choices[1].message.content = Part(h.content, Str_Hi)
                    /\ back.v.choices[1].message.function_call =
                          Part(h.function_call,
                               [name |-> Str_get_weather, arguments |-> Str_loc])

\* a completion whose message has content null and no function_call member
\* was decoded, both absent
C11_Witness ==
    /\ Returned("create_chat_completion") /\ "hows" \in DOMAIN given
    /\ given.hows = [content |-> "null", function_call |-> "absent", finish_reason |-> "present"]
    /\ back.ok
    /\ back.v.choices[1].message.content = None
    /\ back.v.choices[1].message.function_call = None

\* the stream is payload frames ended by one sentinel frame
WellFormedStream(ix) ==
    /\ Len(ix) >= 1
    /\ StreamFrames[ix[Len(ix)]].kind = "sentinel"
    /\ \A j \in 1..(Len(ix) - 1) : StreamFrames[ix[j]].kind = "payload"

\* exactly one of error, terminal and payload
OneOutcome(r) ==
    \/ ~r.ok /\ r # Ok(None)
    \/ r = Ok(None)
    \/ r.ok /\ r.v.some /\ r # Ok(None)

(* C13: every frame gets exactly one of the outcomes error, Ok(None) and
   Ok(Some(chunk)); Ok(None) is the outcome exactly of the sentinel frames
   (never of the payloads null, [], {} or "[DONE]"); and the loop fed a
   stream of payload frames ended by one sentinel frame gets one chunk per
   payload frame, no error, and stops exactly at the sentinel. *)
C13_StreamToSentinel ==
    op = "stream" =>
       /\ \A j \in 1..Len(back) :
             /\ OneOutcome(back[j])
             /\ back[j] = Ok(None) <=> IsSentinelFrame(value[j])
       /\ WellFormedStream(given.ix) =>
             /\ \A j \in 1..Len(back) :
                   /\ back[j].ok
                   /\ j < Len(value) => back[j].v.some
             /\ pc = "stop" <=> Len(back) = Len(value)
             /\ pc # "end"

====
